---- MODULE Spec2Model ----
(***************************************************************************)
(* A model of uart_bridge.ino: the SC18IM704-style UART bridge.  The       *)
(* engine is the Arduino loop(): wait_for_cmd() cuts the byte stream of    *)
(* the bridge UART into lines, the switch of loop() routes on rx_buf[0],   *)
(* and the handlers relay to the Wire (I2C) bus, to the GPIO pins or to    *)
(* the UART configuration.  Bytes are integers 0..255.                     *)
(***************************************************************************)
EXTENDS Integers, Sequences, FiniteSets, TLC

\* ---------------------------------------------------------------- constants
BUFFER_SIZE == 64
I2C_READ_BIT == 1

CMD_START == 83
CMD_STOP == 80
CMD_REG_READ == 82
CMD_REG_WRITE == 87
CMD_GPIO_READ == 73
CMD_GPIO_WRITE == 79
CMD_POWER_DOWN == 90
CMD_READ_ID == 86

REG_BAUD_RATE_0 == 0
REG_BAUD_RATE_1 == 1
REG_PORT_CONF1 == 2
REG_PORT_CONF2 == 3
REG_IO_STATE == 4
REG_I2C_CLK_L == 7
REG_I2C_CLK_H == 8
REG_I2C_STATE == 10

I2C_OK == 240
I2C_NACK_ON_ADDR == 241
I2C_NACK_ON_DATA == 242
I2C_TIME_OUT == 248

\* '\r' and '\n' of the switch in wait_for_cmd
CR == 13
LF == 10

\* uint8_t rbuf[10] of i2c_read
RBUF_SIZE == 10

\* the pin list, position 0 first
gpio_pins == <<2, 4, 5, 12, 13, 14, 18, 19>>

\* "U-Bridge v1.0.0\0": the literal's 15 characters, its explicit NUL and the
\* NUL the compiler appends
device_id == <<85, 45, 66, 114, 105, 100, 103, 101, 32, 118, 49, 46, 48, 46, 48, 0, 0>>

\* the two tables of reg_write, index for index
baud_rate == <<9600, 14400, 19200, 28800, 38400, 57600, 76800, 115200, 230400, 460800>>
br_config == <<752, 496, 368, 240, 176, 112, 80, 48, 16, 0>>

\* the values Wire.endTransmission returns
WireStatus == 0..5

\* ------------------------------------------------------------------ bounds
\* the most bytes a peripheral makes available to one requestFrom
MaxAvail == 11

\* ------------------------------------------------------------------- state
VARIABLES
  pc,          \* where loop() is: "wait" (in wait_for_cmd), "dispatch" (at the
               \* switch of loop), "i2c_wait" (in i2c_read, at while(available()==0))
  rxq,         \* bytes pending on the bridge UART, oldest first
  rx_buf,      \* uint8_t rx_buf[BUFFER_SIZE], indices 0..BUFFER_SIZE-1
  cnt,         \* the local cnt of wait_for_cmd
  _cnt,        \* the global _cnt, the value wait_for_cmd returned
  i2c_state,   \* the global i2c_state
  ioStates,    \* the global ioStates
  baud,        \* the rate of the last bridge.begin
  i2c_clock,   \* the rate of the last Wire.setClock
  pins,        \* the level last driven on each physical pin
  loopback,    \* whether the board reads an output pin back at the level driven
  wire_avail,  \* the bytes Wire holds after requestFrom, not yet read
  tx,          \* the bytes written to the bridge UART since the last line arrived
  handler,     \* the handler loop() invoked since the last line arrived
  wire,        \* the Wire transaction made since the last line arrived
  wire_result, \* what the last Wire.endTransmission returned, -1 before the first
  consumed     \* the bytes this call of wait_for_cmd has read, '\r' and '\n' included

vars == <<pc, rxq, rx_buf, cnt, _cnt, i2c_state, ioStates, baud, i2c_clock,
          pins, loopback, wire_avail, tx, handler, wire, wire_result, consumed>>

\* ----------------------------------------------------------------- helpers
Pow2(i) == 2 ^ i

\* (state >> i) & 0x01
Bit(state, i) == (state \div Pow2(i)) % 2

PinSet == {gpio_pins[i] : i \in 1..Len(gpio_pins)}

Zeros == [i \in 0..(BUFFER_SIZE - 1) |-> 0]

LowLevels == [p \in PinSet |-> 0]

NoWire == [op |-> "none", addr |-> 0, count |-> 0, data |-> <<>>, stop |-> FALSE]

\* Print::write(const char *): the bytes before the first NUL
CStr(s) ==
  LET n == CHOOSE k \in 0..Len(s) :
             /\ \A j \in 1..k : s[j] # 0
             /\ (k = Len(s) \/ s[k + 1] = 0)
  IN SubSeq(s, 1, n)

\* the first n bytes of rx_buf as a sequence
Frame(buf, n) == [i \in 1..n |-> buf[i - 1]]

\* -------------------------------------------------------------- the input
\* The lines the client sends.  Each is sent whole, '\n' last; a line longer
\* than the buffer is BUFFER_SIZE + 1 bytes before its '\n'.
Fill(n) == [i \in 1..n |-> 65]

\* one line for each case of the switch of loop()
BasicLines ==
  { <<CMD_START, 76, 2, 17, 34, CMD_STOP>>,      \* S addr 2 d0 d1 P
    <<CMD_START, 77, 0, CMD_STOP>>,              \* read of 0 bytes
    <<CMD_START, 77, 2, CMD_STOP>>,              \* read of 2 bytes
    <<CMD_START, 77, RBUF_SIZE + 1, CMD_STOP>>,  \* read of one byte more than rbuf holds
    <<CMD_REG_READ, REG_IO_STATE, CMD_STOP>>,
    <<CMD_REG_READ, REG_I2C_STATE, CMD_STOP>>,   \* the address is the byte '\n'
    <<CMD_GPIO_READ, CR, CMD_STOP, CR>>,         \* '\r' inside and before '\n'
    <<CMD_GPIO_WRITE, 5, CMD_STOP>>,
    <<CMD_REG_WRITE, REG_PORT_CONF1, 170, REG_PORT_CONF2, 170, CMD_STOP>>,
    <<CMD_POWER_DOWN, 90, 165, CMD_STOP>>,
    <<CMD_READ_ID, CMD_STOP>>,
    <<CMD_STOP>>,                                \* P alone
    <<88, CMD_STOP>> }                           \* 'X', no command

ShortLines ==
  BasicLines \cup
  { <<CMD_START, 76, 2, 17, 34>>,                \* S addr 2 d0 d1
    <<CMD_START, 76, 1, 17, CMD_STOP>>,          \* S addr 1 d0 P
    <<CMD_START, 76, 2, 17, CMD_STOP>>,          \* length byte 2, one data byte
    <<CMD_START, 76, 2, 17, 34, 51>>,            \* 4 + length bytes, last not P
    <<CMD_START, 76, 0, CMD_STOP>>,              \* S addr 0 P
    <<CMD_START, 76, 2>>,                        \* length byte 2, no data byte
    <<CMD_START, 76, 200, 17, CMD_STOP>>,        \* length byte past the buffer
    <<CMD_START, 77, 1, CMD_STOP>>,              \* read of 1 byte
    <<CMD_START, 77, 3, CMD_STOP>>,              \* read of 3 bytes
    <<CMD_REG_READ, REG_BAUD_RATE_0, CMD_STOP>>,
    <<CMD_GPIO_READ, CMD_STOP>>,
    <<CMD_GPIO_WRITE, 0, CMD_STOP>>,
    <<CMD_REG_WRITE, REG_BAUD_RATE_0, 240, REG_BAUD_RATE_1, 2, CMD_STOP>>,  \* 0x02F0
    <<CMD_REG_WRITE, REG_I2C_CLK_L, 19, REG_I2C_CLK_H, 0, CMD_STOP>>,       \* 0x0013
    <<>> }                                       \* an empty line

\* W a0 v0 a1 v1 P: every code of br_config, and values of neither table
RegWriteLines ==
  { <<CMD_REG_WRITE, REG_BAUD_RATE_0, br_config[i] % 256,
      REG_BAUD_RATE_1, br_config[i] \div 256, CMD_STOP>> : i \in 1..Len(br_config) }
  \cup
  { <<CMD_REG_WRITE, REG_BAUD_RATE_0, 49, REG_BAUD_RATE_1, 0, CMD_STOP>>,   \* 0x0031
    <<CMD_REG_WRITE, REG_BAUD_RATE_0, 48, REG_BAUD_RATE_1, 1, CMD_STOP>>,   \* 0x0130
    <<CMD_REG_WRITE, REG_BAUD_RATE_0, 5, REG_BAUD_RATE_1, 0, CMD_STOP>>,    \* 0x0005
    <<CMD_REG_WRITE, REG_BAUD_RATE_1, 48, REG_BAUD_RATE_0, 0, CMD_STOP>>,   \* pair reversed
    <<CMD_REG_WRITE, REG_BAUD_RATE_0, 48, REG_I2C_CLK_H, 0, CMD_STOP>>,     \* pair mixed
    <<CMD_REG_WRITE, REG_I2C_CLK_L, 5, REG_I2C_CLK_H, 0, CMD_STOP>>,        \* 0x0005
    <<CMD_REG_WRITE, REG_I2C_CLK_L, 19, REG_I2C_CLK_H, 0, CMD_STOP>>,       \* 0x0013
    <<CMD_REG_WRITE, REG_I2C_CLK_L, 5, REG_I2C_CLK_H, 1, CMD_STOP>>,        \* 0x0105
    <<CMD_REG_WRITE, REG_I2C_CLK_L, 20, REG_I2C_CLK_H, 0, CMD_STOP>>,       \* 0x0014
    <<CMD_REG_WRITE, REG_I2C_CLK_L, 48, REG_I2C_CLK_H, 0, CMD_STOP>>,       \* 0x0030
    <<CMD_REG_WRITE, REG_I2C_CLK_H, 5, REG_I2C_CLK_L, 0, CMD_STOP>>,        \* pair reversed
    <<CMD_REG_WRITE, REG_IO_STATE, 5, 5, 0, CMD_STOP>>,
    <<CMD_REG_WRITE, REG_BAUD_RATE_0, 48>> }                                \* cut short

LongLines ==
  { <<b0>> \o Fill(BUFFER_SIZE) : b0 \in {CMD_GPIO_READ, 88} }
  \cup
  { <<CMD_REG_READ, REG_IO_STATE>> \o Fill(BUFFER_SIZE - 1),
    <<88>> \o Fill(BUFFER_SIZE - 1) }            \* the last: exactly BUFFER_SIZE bytes

Terminated(S) == {l \o <<LF>> : l \in S}

\* the lines of the four specifications
Lines == Terminated(ShortLines \cup LongLines)

RegLines == Terminated(BasicLines \cup RegWriteLines)

LiveLines == Terminated(BasicLines \cup {<<CMD_GPIO_READ>> \o Fill(BUFFER_SIZE)})

\* O mask P for masks of every bit position, the two byte values that the
\* frame reader treats specially among them
Masks == {0, 1, 128, 165, 255, LF, CR}

GpioLines ==
  Terminated(BasicLines \cup {<<CMD_GPIO_WRITE, m, CMD_STOP>> : m \in Masks})

\* ------------------------------------------------------------ frame reader
\* the case '\r' missing from the switch
Discarded_mut(c) == FALSE

\* case '\r': break;
Discarded(c) == c = CR

\* if (cnt > BUFFER_SIZE) return -1;
Overflowed(n) == n > BUFFER_SIZE

\* rx_buf[idx] = v.  Index BUFFER_SIZE is one past the array: the store lands
\* on whatever the linker put behind rx_buf, one of the other globals or
\* memory the engine does not read.
OobTargets == {"other", "i2c_state", "ioStates"}

Store(idx, v) ==
  IF idx < BUFFER_SIZE
  THEN /\ rx_buf' = [rx_buf EXCEPT ![idx] = v]
       /\ UNCHANGED <<i2c_state, ioStates>>
  ELSE \E t \in OobTargets :
       /\ rx_buf' = rx_buf
       /\ i2c_state' = IF t = "i2c_state" THEN v ELSE i2c_state
       /\ ioStates' = IF t = "ioStates" THEN v ELSE ioStates

\* the client sends its next line, one of S
SendFrom(S) ==
  /\ pc = "wait"
  /\ rxq = <<>>
  /\ rxq' \in S
  /\ tx' = <<>>
  /\ handler' = "none"
  /\ wire' = NoWire
  /\ UNCHANGED loopback
  /\ UNCHANGED <<pc, rx_buf, cnt, _cnt, i2c_state, ioStates, baud, i2c_clock,
                 pins, wire_avail, wire_result, consumed>>

Send == SendFrom(Lines)

SendReg == SendFrom(RegLines)

SendLive == SendFrom(LiveLines)

SendGpio == SendFrom(GpioLines)

\* wait_for_cmd reads a '\r'
wait_for_cmd_cr ==
  /\ pc = "wait"
  /\ rxq # <<>>
  /\ Discarded(Head(rxq))
  /\ rxq' = Tail(rxq)
  /\ consumed' = Append(consumed, Head(rxq))
  /\ UNCHANGED loopback
  /\ UNCHANGED <<pc, rx_buf, cnt, _cnt, i2c_state, ioStates, baud, i2c_clock,
                 pins, wire_avail, tx, handler, wire, wire_result>>

\* wait_for_cmd reads the '\n': rx_buf[cnt] = '\0'; return cnt;
wait_for_cmd_lf ==
  /\ pc = "wait"
  /\ rxq # <<>>
  /\ ~Discarded(Head(rxq))
  /\ Head(rxq) = LF
  /\ rxq' = Tail(rxq)
  /\ Store(cnt, 0)
  /\ _cnt' = cnt
  /\ pc' = "dispatch"
  /\ consumed' = Append(consumed, Head(rxq))
  /\ UNCHANGED loopback
  /\ UNCHANGED <<cnt, baud, i2c_clock, pins, wire_avail, tx, handler, wire,
                 wire_result>>

\* wait_for_cmd reads any other byte: rx_buf[cnt++] = c; and the capacity test
wait_for_cmd_byte ==
  /\ pc = "wait"
  /\ rxq # <<>>
  /\ ~Discarded(Head(rxq))
  /\ Head(rxq) # LF
  /\ rxq' = Tail(rxq)
  /\ Store(cnt, Head(rxq))
  /\ cnt' = cnt + 1
  /\ consumed' = Append(consumed, Head(rxq))
  /\ IF Overflowed(cnt + 1)
     THEN _cnt' = -1 /\ pc' = "dispatch"
     ELSE UNCHANGED <<_cnt, pc>>
  /\ UNCHANGED loopback
  /\ UNCHANGED <<baud, i2c_clock, pins, wire_avail, tx, handler, wire, wire_result>>

\* loop() comes round: wait_for_cmd starts with cnt = 0 and memset(rx_buf, 0)
EnterWait ==
  /\ pc' = "wait"
  /\ cnt' = 0
  /\ rx_buf' = Zeros
  /\ consumed' = <<>>

\* -------------------------------------------------------------- dispatcher
\* the switch with the cases of 'R' and 'W' exchanged
Route_mut(b0, b1) ==
  CASE b0 = CMD_START ->
         IF (b1 \div I2C_READ_BIT) % 2 = 1 THEN "i2c_read" ELSE "i2c_write"
    [] b0 = CMD_REG_READ -> "reg_write"
    [] b0 = CMD_REG_WRITE -> "reg_read"
    [] b0 = CMD_GPIO_READ -> "gpio_read"
    [] b0 = CMD_GPIO_WRITE -> "gpio_write"
    [] b0 = CMD_POWER_DOWN -> "power_down"
    [] b0 = CMD_READ_ID -> "read_id"
    [] OTHER -> "unsupported"

\* the switch of loop() on rx_buf[0], and for 'S' the test of rx_buf[1] & I2C_READ_BIT
Route(b0, b1) ==
  CASE b0 = CMD_START ->
         IF (b1 \div I2C_READ_BIT) % 2 = 1 THEN "i2c_read" ELSE "i2c_write"
    [] b0 = CMD_REG_READ -> "reg_read"
    [] b0 = CMD_REG_WRITE -> "reg_write"
    [] b0 = CMD_GPIO_READ -> "gpio_read"
    [] b0 = CMD_GPIO_WRITE -> "gpio_write"
    [] b0 = CMD_POWER_DOWN -> "power_down"
    [] b0 = CMD_READ_ID -> "read_id"
    [] OTHER -> "unsupported"

Dispatched(h) ==
  /\ pc = "dispatch"
  /\ Route(rx_buf[0], rx_buf[1]) = h
  /\ handler' = h

\* ---------------------------------------------------------------- I2C relay
\* send_stop without the test of the last byte
SendStop_mut(data, n) == n = 4 + data[2]

\* bool send_stop = ((_cnt == (4 + len)) && (data[_cnt - 1] == 'P'));
SendStop(data, n) == n = 4 + data[2] /\ data[n - 1] = CMD_STOP

\* data[idx] as Wire.write reads it; m is what lies behind rx_buf
MemAt(data, idx, m) == IF idx < BUFFER_SIZE THEN data[idx] ELSE m

\* the len bytes from &data[3] on
WriteData(data, len, m) == [i \in 1..len |-> MemAt(data, 3 + i - 1, m)]

\* the bytes a peripheral answers a requestFrom of n bytes with
DeviceBytes(n) == [i \in 1..n |-> 160 + i]

Min(a, b) == IF a < b THEN a ELSE b

i2c_write ==
  /\ Dispatched("i2c_write")
  /\ \E r \in WireStatus, m \in {0, 65} :
       /\ wire' = [op |-> "write", addr |-> rx_buf[1] \div 2, count |-> rx_buf[2],
                   data |-> WriteData(rx_buf, rx_buf[2], m),
                   stop |-> SendStop(rx_buf, _cnt)]
       /\ i2c_state' = r
       /\ wire_result' = r
  /\ EnterWait
  /\ UNCHANGED loopback
  /\ UNCHANGED <<rxq, _cnt, ioStates, baud, i2c_clock, pins, wire_avail, tx>>

\* i2c_read up to the wait: Wire.requestFrom(addr >> 1, bytes)
i2c_read ==
  /\ Dispatched("i2c_read")
  /\ \E n \in 0..Min(rx_buf[2], MaxAvail) :
       wire_avail' = DeviceBytes(n)
  /\ wire' = [op |-> "read", addr |-> rx_buf[1] \div 2, count |-> rx_buf[2],
              data |-> <<>>, stop |-> TRUE]
  /\ pc' = "i2c_wait"
  /\ UNCHANGED loopback
  /\ UNCHANGED <<rxq, rx_buf, cnt, _cnt, i2c_state, ioStates, baud, i2c_clock,
                 pins, tx, wire_result, consumed>>

\* the wait left out: i2c_read goes on with nothing available
Arrived_mut(avail) == TRUE

\* while (Wire.available()==0) {}: i2c_read goes on once a byte is available
Arrived(avail) == avail # <<>>

\* i2c_read past the wait, no more bytes available than rbuf holds: the bytes
\* are drained into rbuf, written to the bridge, and '\0' after them
i2c_read_drain ==
  /\ pc = "i2c_wait"
  /\ Arrived(wire_avail)
  /\ Len(wire_avail) <= RBUF_SIZE
  /\ tx' = tx \o wire_avail \o <<0>>
  /\ wire_avail' = <<>>
  /\ EnterWait
  /\ UNCHANGED loopback
  /\ UNCHANGED <<rxq, wire_result, _cnt, i2c_state, ioStates, baud, i2c_clock, pins,
                 handler, wire>>

\* what becomes of a drain that runs past rbuf[RBUF_SIZE - 1], the stores and
\* the reads back being outside the array: the bytes come back as stored, or
\* the ones outside come back as something else on the stack, or the frame of
\* the caller is spoilt and the board restarts
OverrunOutcomes == {"kept", "lost", "restart"}

\* i2c_read past the wait with more bytes available than rbuf holds:
\* while (Wire.available()) rbuf[i++] = Wire.read(); has no test of i
i2c_read_overrun ==
  /\ pc = "i2c_wait"
  /\ Arrived(wire_avail)
  /\ Len(wire_avail) > RBUF_SIZE
  /\ \E o \in OverrunOutcomes :
       \/ /\ o = "kept"
          /\ tx' = tx \o wire_avail \o <<0>>
          /\ wire_avail' = <<>>
          /\ EnterWait
          /\ UNCHANGED <<_cnt, i2c_state, ioStates, baud, i2c_clock, pins,
                         handler, wire_result>>
       \/ /\ o = "lost"
          /\ \E v \in {0, 65} :
               tx' = tx \o SubSeq(wire_avail, 1, RBUF_SIZE)
                        \o [i \in 1..(Len(wire_avail) - RBUF_SIZE) |-> v] \o <<0>>
          /\ wire_avail' = <<>>
          /\ EnterWait
          /\ UNCHANGED <<_cnt, i2c_state, ioStates, baud, i2c_clock, pins,
                         handler, wire_result>>
       \/ /\ o = "restart"                \* setup() runs again
          /\ tx' = tx \o CStr(<<79, 75, 0>>)
          /\ wire_avail' = <<>>
          /\ EnterWait
          /\ _cnt' = 0
          /\ i2c_state' = 0
          /\ ioStates' = 0
          /\ baud' = 115200
          /\ i2c_clock' = 400000
          /\ pins' = LowLevels
          /\ handler' = "setup"
          /\ wire_result' = -1
  /\ UNCHANGED loopback
  /\ UNCHANGED <<rxq, wire>>

\* ----------------------------------------------------------- register store
\* the switch of reg_read on i2c_state
StatusOf(s) ==
  CASE s = 0 -> I2C_OK
    [] s = 2 -> I2C_NACK_ON_ADDR
    [] s = 3 -> I2C_NACK_ON_DATA
    [] s = 5 -> I2C_TIME_OUT
    [] OTHER -> s

\* if (status == 1 || status == 4) log only; else bridge.write(status)
StatusReply(s) ==
  IF StatusOf(s) = 1 \/ StatusOf(s) = 4 THEN <<>> ELSE <<StatusOf(s)>>

\* what reg_read(reg) writes to the bridge
RegReadReply(reg, io, s) ==
  (IF reg = REG_IO_STATE THEN <<io>> ELSE <<>>)
  \o (IF reg = REG_I2C_STATE THEN StatusReply(s) ELSE <<>>)

reg_read ==
  /\ Dispatched("reg_read")
  /\ tx' = tx \o RegReadReply(rx_buf[1], ioStates, i2c_state)
  /\ EnterWait
  /\ UNCHANGED loopback
  /\ UNCHANGED <<rxq, wire_result, _cnt, i2c_state, ioStates, baud, i2c_clock, pins,
                 wire_avail, wire>>

\* uint16_t reg = buffer[3] << 8 | buffer[1];
RegPair(buffer) == (buffer[3] * 256 + buffer[1]) % 65536

\* uint16_t val = buffer[4] << 8 | buffer[2];
ValPair(buffer) == (buffer[4] * 256 + buffer[2]) % 65536

\* the case chosen by the low address alone
RegCase_mut(reg) ==
  IF reg % 256 = REG_PORT_CONF1 THEN "conf"
  ELSE IF reg % 256 = REG_BAUD_RATE_0 THEN "baud"
  ELSE IF reg % 256 = REG_I2C_CLK_L THEN "clock"
  ELSE "unknown"

\* switch (reg): the three case labels and default
RegCase(reg) ==
  IF reg = REG_PORT_CONF2 * 256 + REG_PORT_CONF1 THEN "conf"
  ELSE IF reg = REG_BAUD_RATE_1 * 256 + REG_BAUD_RATE_0 THEN "baud"
  ELSE IF reg = REG_I2C_CLK_H * 256 + REG_I2C_CLK_L THEN "clock"
  ELSE "unknown"

\* the loop taking the rate one row further down than the code that matched
BaudAfter_mut(val, cur) ==
  LET hit == {i \in 1..Len(br_config) : br_config[i] = val}
  IN IF hit = {} THEN cur
     ELSE baud_rate[((CHOOSE i \in hit : TRUE) % Len(baud_rate)) + 1]

\* the for loop over br_config: bridge.begin(baud_rate[i]) for each i that matches
BaudAfter(val, cur) ==
  LET hit == {i \in 1..Len(br_config) : br_config[i] = val}
  IN IF hit = {} THEN cur
     ELSE baud_rate[CHOOSE i \in hit : \A j \in hit : j <= i]

\* the two clock rates exchanged
ClockAfter_mut(val, cur) ==
  IF val = 19 THEN 400000 ELSE IF val = 5 THEN 100000 ELSE cur

\* if (val == 0x0005) Wire.setClock(400000L); if (val == 0x0013) Wire.setClock(100000L);
ClockAfter(val, cur) ==
  IF val = 19 THEN 100000 ELSE IF val = 5 THEN 400000 ELSE cur

reg_write ==
  /\ Dispatched("reg_write")
  /\ LET reg == RegPair(rx_buf)
         val == ValPair(rx_buf)
     IN /\ baud' = IF RegCase(reg) = "baud"
                   THEN BaudAfter(val, baud) ELSE baud
        /\ i2c_clock' = IF RegCase(reg) = "clock"
                        THEN ClockAfter(val, i2c_clock) ELSE i2c_clock
  /\ EnterWait
  /\ UNCHANGED loopback
  /\ UNCHANGED <<rxq, wire_result, _cnt, i2c_state, ioStates, pins, wire_avail, tx, wire>>

\* --------------------------------------------------------------- GPIO relay
\* what digitalRead gives for the eight pins: the level driven, or low on a
\* board where the output pin's input path is off
ReadLevels == IF loopback THEN {pins} ELSE {LowLevels}

\* ioStates |= (p << i) for i = 0..7
MaskOf(lv) ==
  LET acc[i \in 0..Len(gpio_pins)] ==
        IF i = 0 THEN 0 ELSE acc[i - 1] + lv[gpio_pins[i]] * Pow2(i - 1)
  IN acc[Len(gpio_pins)]

\* the bit taken from the other end of the mask
Driven_mut(state) ==
  [p \in PinSet |-> Bit(state, 8 - (CHOOSE i \in 1..Len(gpio_pins) : gpio_pins[i] = p))]

\* digitalWrite(gpio_pins[i], (state >> i) & 0x01) for i = 0..7
Driven(state) ==
  [p \in PinSet |-> Bit(state, (CHOOSE i \in 1..Len(gpio_pins) : gpio_pins[i] = p) - 1)]

gpio_read ==
  /\ Dispatched("gpio_read")
  /\ \E lv \in ReadLevels :
       /\ ioStates' = MaskOf(lv)
       /\ tx' = tx \o <<MaskOf(lv)>>
  /\ EnterWait
  /\ UNCHANGED loopback
  /\ UNCHANGED <<rxq, wire_result, _cnt, i2c_state, baud, i2c_clock, pins, wire_avail, wire>>

gpio_write ==
  /\ Dispatched("gpio_write")
  /\ pins' = Driven(rx_buf[1])
  /\ EnterWait
  /\ UNCHANGED loopback
  /\ UNCHANGED <<rxq, wire_result, _cnt, i2c_state, ioStates, baud, i2c_clock, wire_avail,
                 tx, wire>>

\* ------------------------------------------------------------------- others
power_down ==
  /\ Dispatched("power_down")
  /\ EnterWait
  /\ UNCHANGED loopback
  /\ UNCHANGED <<rxq, wire_result, _cnt, i2c_state, ioStates, baud, i2c_clock, pins,
                 wire_avail, tx, wire>>

\* bridge.write(device_id)
read_id ==
  /\ Dispatched("read_id")
  /\ tx' = tx \o CStr(device_id)
  /\ EnterWait
  /\ UNCHANGED loopback
  /\ UNCHANGED <<rxq, wire_result, _cnt, i2c_state, ioStates, baud, i2c_clock, pins,
                 wire_avail, wire>>

\* the default case of loop(): logged only
unsupported ==
  /\ Dispatched("unsupported")
  /\ EnterWait
  /\ UNCHANGED loopback
  /\ UNCHANGED <<rxq, wire_result, _cnt, i2c_state, ioStates, baud, i2c_clock, pins,
                 wire_avail, tx, wire>>

\* ----------------------------------------------------------- specification
\* after setup(): both UARTs at 115200, the pins outputs, Wire at 400 kHz,
\* "OK" written to the bridge
Init ==
  /\ pc = "wait"
  /\ rxq = <<>>
  /\ rx_buf = Zeros
  /\ cnt = 0
  /\ _cnt = 0
  /\ i2c_state = 0
  /\ ioStates = 0
  /\ baud = 115200
  /\ i2c_clock = 400000
  /\ pins = LowLevels
  /\ loopback \in BOOLEAN
  /\ wire_avail = <<>>
  /\ tx = CStr(<<79, 75, 0>>)
  /\ handler = "none"
  /\ wire = NoWire
  /\ wire_result = -1
  /\ consumed = <<>>

\* what loop() itself does; the client's sending is not the engine's
Engine ==
  \/ wait_for_cmd_cr
  \/ wait_for_cmd_lf
  \/ wait_for_cmd_byte
  \/ i2c_write
  \/ i2c_read
  \/ i2c_read_drain
  \/ i2c_read_overrun
  \/ reg_read
  \/ reg_write
  \/ gpio_read
  \/ gpio_write
  \/ power_down
  \/ read_id
  \/ unsupported

Next == Send \/ Engine

Spec == Init /\ [][Next]_vars

\* the engine under the register-write lines
RegNext == SendReg \/ Engine

RegSpec == Init /\ [][RegNext]_vars

\* loop() is called again and again and polls without pause: a step of the
\* engine that stays possible is taken
LiveNext == SendLive \/ Engine

FairSpec == Init /\ [][LiveNext]_vars /\ WF_vars(Engine)

\* the GPIO masks
GpioNext == SendGpio \/ Engine

GpioSpec == Init /\ [][GpioNext]_vars

\* ------------------------------------------------------------------ claims
\* the engine's state: what a later command can observe
engine == <<i2c_state, ioStates, baud, i2c_clock, pins, wire_avail>>

\* a sequence without its '\r' and '\n' bytes
Payload(q) == SelectSeq(q, LAMBDA c : c # CR /\ c # LF)

\* wait_for_cmd hands a frame to the dispatcher in this step
Deliver == pc = "wait" /\ pc' = "dispatch" /\ _cnt' >= 0

\* this step consumes a '\n'
ConsumesLF == pc = "wait" /\ rxq # <<>> /\ Head(rxq) = LF /\ rxq' = Tail(rxq)

\* C1: after wait_for_cmd has reported Overflow (-1), the loop has invoked no
\* command handler and nothing has been written to the bridge for that data.
C1_OverflowNoDispatch ==
  (_cnt = -1 /\ pc # "dispatch") =>
    (handler \in {"none", "unsupported"} /\ tx = <<>>)

\* C2: a frame is delivered in exactly the steps that consume a '\n'; the
\* delivered frame holds no '\r' and is the bytes read since the previous
\* return of wait_for_cmd, less the '\r' bytes, in arrival order.
C2_FrameDelivery ==
  [][ /\ Deliver <=> ConsumesLF
      /\ Deliver =>
           /\ Frame(rx_buf', _cnt') = Payload(consumed')
           /\ \A i \in 1.._cnt' : Frame(rx_buf', _cnt')[i] # CR ]_vars

\* C2 witness: a frame of two bytes delivered from a line that held two '\r'.
C2_Witness ==
  /\ pc = "dispatch"
  /\ _cnt = 2
  /\ Len(consumed) = 5
  /\ Frame(rx_buf, 2) = <<CMD_GPIO_READ, CMD_STOP>>

\* the handler the claim names for a leading byte
ClaimedHandler(b0, b1) ==
  CASE b0 = 83 -> IF b1 % 2 = 1 THEN "i2c_read" ELSE "i2c_write"
    [] b0 = 82 -> "reg_read"
    [] b0 = 87 -> "reg_write"
    [] b0 = 73 -> "gpio_read"
    [] b0 = 79 -> "gpio_write"
    [] b0 = 90 -> "power_down"
    [] b0 = 86 -> "read_id"
    [] OTHER -> "unsupported"

\* the dispatch of a delivered frame wrote nothing and changed nothing
Silent == tx' = tx /\ engine' = engine /\ wire' = wire

\* C3 as stated: each of the 8 command bytes S P R W I O Z V has its handler
\* invoked, and any other leading byte is dropped silently.
C3_EightCommands ==
  [][ (pc = "dispatch" /\ _cnt >= 0) =>
        /\ rx_buf[0] \in {83, 80, 82, 87, 73, 79, 90, 86} =>
             (handler' # "unsupported" /\ handler' # "none")
        /\ rx_buf[0] \notin {83, 80, 82, 87, 73, 79, 90, 86} =>
             (handler' = "unsupported" /\ Silent) ]_vars

\* C3 amended: for each of the 7 command bytes S R W I O Z V the handler of
\* that command and no other is invoked (for S the I2C read handler when the
\* LSB of frame[1] is set, else the I2C write handler); for any other leading
\* byte, P = 0x50 included, no handler is invoked, no response byte is written
\* and no engine state changes.
C3_Routing ==
  [][ (pc = "dispatch" /\ _cnt >= 0) =>
        /\ handler' = ClaimedHandler(rx_buf[0], rx_buf[1])
        /\ rx_buf[0] \notin {83, 82, 87, 73, 79, 90, 86} => Silent ]_vars

\* C3 witness: the frame P alone has been dispatched as unsupported.
C3_Witness ==
  /\ pc = "wait"
  /\ handler = "unsupported"
  /\ _cnt = 1
  /\ rxq = <<>>
  /\ tx = <<>>

\* C4: after every delivered frame the engine eventually returns to waiting
\* for the next frame.
C4_AlwaysReturns == (pc = "dispatch") ~> (pc = "wait")

\* the status byte the claim gives for an outcome of Wire.endTransmission
ClaimedStatus(o) ==
  CASE o = 0 -> <<240>>
    [] o = 2 -> <<241>>
    [] o = 3 -> <<242>>
    [] o = 5 -> <<248>>
    [] OTHER -> <<>>

\* the bytes of a register-read of address 10 have arrived and are dispatched
StatusReadArrived ==
  /\ pc = "dispatch"
  /\ Payload(consumed) = <<82>>
  /\ consumed[Len(consumed)] = 10

\* C5: a register-read of the i2c-status register (address 10) writes the one
\* byte that the outcome of the most recent I2C write determines (0xF0 ok, 0xF1
\* nack on address, 0xF2 nack on data, 0xF8 timeout) and writes nothing after
\* outcome 1 or 4.
C5_StatusRead ==
  [][ (StatusReadArrived /\ wire_result \in WireStatus) =>
        tx' = tx \o ClaimedStatus(wire_result) ]_vars

\* C6: a register-read of the i2c-status register after an I2C write of
\* outcome 1 or 4 writes that raw value as the response byte.
C6_RawStatus ==
  [][ (StatusReadArrived /\ wire_result \in {1, 4}) =>
        tx' = tx \o <<wire_result>> ]_vars

\* C7: Read-Identity writes the 16 bytes "U-Bridge v1.0.0" and NUL, whatever
\* came before, and changes no engine state.
C7_Identity ==
  [][ (pc = "dispatch" /\ _cnt >= 0 /\ rx_buf[0] = 86) =>
        /\ tx' = tx \o <<85, 45, 66, 114, 105, 100, 103, 101, 32, 118, 49, 46,
                         48, 46, 48, 0>>
        /\ engine' = engine ]_vars

\* C8: the I2C write of a delivered frame asserts stop exactly when the frame
\* is 4 + frame[2] bytes long and its last byte is 'P'; S,addr,2,d0,d1 goes
\* without stop and S,addr,2,d0,d1,P with stop.
C8_StopCondition ==
  [][ (pc = "dispatch" /\ _cnt >= 0 /\ rx_buf[0] = 83 /\ rx_buf[1] % 2 = 0) =>
        LET f == Payload(consumed)
        IN /\ wire'.op = "write"
           /\ wire'.stop <=> (Len(f) = 4 + rx_buf[2] /\ f[Len(f)] = 80)
           /\ (f = <<83, 76, 2, 17, 34>>) => ~wire'.stop
           /\ (f = <<83, 76, 2, 17, 34, 80>>) => wire'.stop ]_vars

\* C8 witness: the frame S,addr,2,d0,d1,P has been written with stop.
C8_Witness ==
  /\ pc = "wait"
  /\ handler = "i2c_write"
  /\ wire.op = "write"
  /\ wire.data = <<17, 34>>
  /\ wire.stop

\* the rate the claim gives for a baud code, cur for a code not listed
ClaimedBaud(v, cur) ==
  CASE v = 752 -> 9600
    [] v = 496 -> 14400
    [] v = 368 -> 19200
    [] v = 240 -> 28800
    [] v = 176 -> 38400
    [] v = 112 -> 57600
    [] v = 80 -> 76800
    [] v = 48 -> 115200
    [] v = 16 -> 230400
    [] v = 0 -> 460800
    [] OTHER -> cur

\* C9: a register-write to the pair (0, 1) sets the baud rate to the rate of
\* its 16-bit code when the code is one of the ten listed, and leaves the
\* baud rate as it is for any other value.
C9_BaudWrite ==
  [][ (pc = "dispatch" /\ rx_buf[0] = 87 /\ rx_buf[1] = 0 /\ rx_buf[3] = 1) =>
        baud' = ClaimedBaud(rx_buf[4] * 256 + rx_buf[2], baud) ]_vars

\* C9 witness: a register-write of code 0x0000 has set 460800.
C9_Witness ==
  /\ pc = "wait"
  /\ handler = "reg_write"
  /\ baud = 460800

\* C10: a register-write to the pair (7, 8) sets the I2C clock to 400000 Hz
\* for the value 0x0005 and to 100000 Hz for 0x0013, and leaves it as it is
\* for any other value.
C10_ClockWrite ==
  [][ (pc = "dispatch" /\ rx_buf[0] = 87 /\ rx_buf[1] = 7 /\ rx_buf[3] = 8) =>
        LET v == rx_buf[4] * 256 + rx_buf[2]
        IN i2c_clock' = IF v = 5 THEN 400000
                        ELSE IF v = 19 THEN 100000 ELSE i2c_clock ]_vars

\* C10 witness: a register-write of 0x0013 has set 100000 Hz.
C10_Witness ==
  /\ pc = "wait"
  /\ handler = "reg_write"
  /\ i2c_clock = 100000

\* ---- C11 ----
\* the level the claim gives the pin at list position i under mask m
ClaimedLevel(m, i) == (m \div (2 ^ i)) % 2

\* the pins stand at the levels the claim gives them under mask m
PinsShow(lv, m) == \A i \in 0..7 : lv[gpio_pins[i + 1]] = ClaimedLevel(m, i)

\* C11: gpio_write(m) drives the pin at list position i to bit i of m for
\* i = 0..7 and writes nothing; on a board whose pins read back the level
\* driven, a gpio_read that follows writes the one byte m.
C11_GpioRoundTrip ==
  [][ /\ (pc = "dispatch" /\ rx_buf[0] = CMD_GPIO_WRITE)
         => (PinsShow(pins', rx_buf[1]) /\ tx' = tx)
      /\ (pc = "dispatch" /\ rx_buf[0] = CMD_GPIO_READ /\ loopback)
         => \A m \in 0..255 : PinsShow(pins, m) => tx' = tx \o <<m>> ]_vars

\* a gpio_read answered 0xA5 with pins 2, 5, 14 and 19 high
C11_Witness ==
  /\ pc = "wait" /\ handler = "gpio_read" /\ loopback
  /\ tx = <<165>>
  /\ pins[2] = 1 /\ pins[4] = 0 /\ pins[5] = 1 /\ pins[14] = 1 /\ pins[19] = 1

\* ---- C12 ----
\* the dispatched frame is a register-write of the baud pair or the clock pair
WritesBaudOrClock ==
  /\ rx_buf[0] = CMD_REG_WRITE
  /\ \/ rx_buf[1] = 0 /\ rx_buf[3] = 1
     \/ rx_buf[1] = 7 /\ rx_buf[3] = 8

\* C12: a register-write writes no response byte; a register-write of the pair
\* (2,3) or of any pair other than (0,1) and (7,8), and Power-Down, leave the
\* baud rate, the I2C clock, the GPIO cache, the pin levels and the last I2C
\* status as they were and write nothing.
C12_RegWriteSilent ==
  [][ /\ (pc = "dispatch" /\ rx_buf[0] = CMD_REG_WRITE) => tx' = tx
      /\ (/\ pc = "dispatch"
          /\ rx_buf[0] \in {CMD_REG_WRITE, CMD_POWER_DOWN}
          /\ ~WritesBaudOrClock)
         => /\ tx' = tx
            /\ <<baud, i2c_clock, ioStates, pins, i2c_state>>' =
               <<baud, i2c_clock, ioStates, pins, i2c_state>> ]_vars

\* the register-write cut short, pair (0,0), handled with both rates off
\* their defaults
C12_Witness ==
  /\ pc = "wait" /\ handler = "reg_write" /\ _cnt = 3
  /\ baud = 9600 /\ i2c_clock = 100000 /\ tx = <<>>

\* ---- C13 ----
\* C13: the cached port state is written by gpio-write (the mask written) and
\* by gpio-read (the mask sampled, which is the byte gpio-read answers), and a
\* register-read of address 4 answers the one byte cached, so that the answer
\* is the mask of whichever of the two came last.
C13_IoStateCache ==
  [][ /\ (pc = "dispatch" /\ rx_buf[0] = CMD_GPIO_WRITE) => ioStates' = rx_buf[1]
      /\ (pc = "dispatch" /\ rx_buf[0] = CMD_GPIO_READ) => tx' = tx \o <<ioStates'>>
      /\ (pc = "dispatch" /\ rx_buf[0] = CMD_REG_READ /\ rx_buf[1] = REG_IO_STATE)
         => tx' = tx \o <<ioStates>> ]_vars

\* ---- C14 ----
\* i2c_read has been entered and the peripheral has made no byte available
Blocked == pc = "i2c_wait" /\ wire_avail = <<>>

\* C14: an I2C read whose peripheral makes no byte available stays inside
\* i2c_read: while no byte is available no step dispatches a frame or writes
\* a response byte, and the engine is never again anywhere else.
C14_BlockedForever ==
  /\ [][ Blocked => (pc' = "i2c_wait" /\ tx' = tx /\ handler' = handler
                     /\ rxq' = rxq /\ engine' = engine) ]_vars
  /\ [](Blocked => [](pc = "i2c_wait"))

\* a read of 2 bytes that the peripheral did not answer
C14_Witness ==
  /\ Blocked /\ handler = "i2c_read" /\ wire.op = "read" /\ wire.count = 2
  /\ tx = <<>>

\* ---- C16 ----
\* C16: every index at which the drain loop of i2c_read stores a byte lies
\* within 0..9, whatever count was requested and however many bytes are
\* available.
C16_DrainWithinRbuf ==
  [][ (pc = "i2c_wait" /\ pc' # "i2c_wait")
      => \A k \in 0..(Len(wire_avail) - 1) : k \in 0..(RBUF_SIZE - 1) ]_vars

C15_StoreWithinBuffer ==
  [][ (pc = "wait" /\ rxq # <<>> /\ Head(rxq) # CR)
      => /\ cnt \in 0..(BUFFER_SIZE - 1)
         /\ (pc' = "dispatch" /\ _cnt' # -1) => _cnt' <= BUFFER_SIZE ]_vars

C19_WriteWithinFrame ==
  [][ (/\ pc = "dispatch" /\ _cnt >= 3
       /\ rx_buf[0] = CMD_START /\ rx_buf[1] % 2 = 0)
      => LET L == rx_buf[2]
             f == Frame(rx_buf, _cnt)
         IN /\ wire'.op = "write"
            /\ wire'.addr = rx_buf[1] \div 2
            /\ Len(wire'.data) = L
            /\ 3 + L <= _cnt
            /\ \A i \in 1..L : wire'.data[i] = f[3 + i] ]_vars

\* ---- C20 ----
\* C20: for every byte b, the line 'O', b, 'P', '\n' gives a dispatch of
\* gpio_write with mask b: the dispatch that follows the arrival of 'O', b
\* invokes gpio_write and leaves the pins at the levels of b, b = 0x0A and
\* b = 0x0D included.
C20_BinaryPayload ==
  [][ (/\ pc = "dispatch" /\ Len(consumed) >= 2
       /\ consumed[1] = CMD_GPIO_WRITE)
      => /\ handler' = "gpio_write"
         /\ PinsShow(pins', consumed[2])
         /\ consumed = <<CMD_GPIO_WRITE, consumed[2], CMD_STOP, LF>> ]_vars

====
